---- MODULE Spec2Model ----
(***************************************************************************)
(* Model of the hackathon scraper (src/main.py): the text normaliser       *)
(* clean_text, the listing crawl load_all_data and the overview pass       *)
(* load_hackathons, run against a store with two tables (hackathons,       *)
(* projects) that are written through upsert-on-external_id and update.    *)
(***************************************************************************)
EXTENDS Integers, Sequences, FiniteSets, TLC

(***************************************************************************)
(* Bounds of the model and constants of the program.                       *)
(***************************************************************************)
\* range(20) of load_all_data
PageRange == 20
\* runs (invocations of load_all_data or load_hackathons) in one behaviour
MaxRuns == 3
\* runs in one behaviour of two interleaved runs
MaxConcRuns == 2
\* longest text given to clean_text
MaxLen == 5

(***************************************************************************)
(* Text: a string is a sequence of characters; None is the null argument.  *)
(***************************************************************************)
None == <<"None">>
Alphabet == {"a", "$", " ", "\n"}

\* unicodedata.category(ch).startswith("S"): currency signs, emoji, ...
IsSymbol(ch) == ch \in {"$"}
\* the class \s of re, which is also what str.strip() strips
IsSpace(ch) == ch \in {" ", "\n"}

RECURSIVE RemoveSymbols(_)
RemoveSymbols(s) ==
    IF s = <<>> THEN <<>>
    ELSE IF IsSymbol(Head(s)) THEN RemoveSymbols(Tail(s))
         ELSE <<Head(s)>> \o RemoveSymbols(Tail(s))

\* re.sub(r"\s+", " ", text): every maximal run of whitespace becomes one " "
RECURSIVE CollapseWhitespace(_)
CollapseWhitespace(s) ==
    IF s = <<>> THEN <<>>
    ELSE IF IsSpace(Head(s))
         THEN IF Tail(s) # <<>> /\ IsSpace(Head(Tail(s)))
              THEN CollapseWhitespace(Tail(s))
              ELSE <<" ">> \o CollapseWhitespace(Tail(s))
         ELSE <<Head(s)>> \o CollapseWhitespace(Tail(s))

RECURSIVE LStrip(_)
LStrip(s) == IF s # <<>> /\ IsSpace(Head(s)) THEN LStrip(Tail(s)) ELSE s

RECURSIVE RStrip(_)
RStrip(s) ==
    IF s # <<>> /\ IsSpace(s[Len(s)]) THEN RStrip(SubSeq(s, 1, Len(s) - 1)) ELSE s

\* str.strip()
Strip(s) == RStrip(LStrip(s))

\* a clean_text that collapses the whitespace before it removes the symbols
clean_text_collapse_first(text) ==
    IF text = None \/ text = <<>> THEN <<>>
    ELSE Strip(RemoveSymbols(CollapseWhitespace(text)))

clean_text(text) ==
    IF text = None \/ text = <<>> THEN <<>>
    ELSE Strip(CollapseWhitespace(RemoveSymbols(text)))

RECURSIVE TextsUpTo(_)
TextsUpTo(n) ==
    IF n = 0 THEN {<<>>}
    ELSE LET shorter == TextsUpTo(n - 1)
         IN  shorter \cup {Append(s, c) : s \in {t \in shorter : Len(t) = n - 1}, c \in Alphabet}

Texts == TextsUpTo(MaxLen) \cup {None}

(***************************************************************************)
(* The source: hackathons listed over pages, each with its projects.       *)
(***************************************************************************)
Hacks == {"h1", "h2", "h3"}
Projs == {"p1", "p2", "p3", "p4"}
Runs == {1, 2}

\* the names the listing may carry for a challenge: h1 is renamed at the source
\* from time to time
RawNames(ch) ==
    IF ch = "h1" THEN {<<"a">>, <<"$", "b", " ">>} ELSE {<<"\n", "c", " ", " ", "d">>}

\* the challenges whose slug is empty
NoSlug == {"h3"}

\* the name of a project at the source
Title(p) == <<" ", "a", "\n", "\n", "$">>

\* the project listing of a challenge, by page
ChildPages(h) ==
    CASE h = "h1" -> << <<"p1", "p2">>, <<"p3">> >>
      [] h = "h2" -> << <<"p4">> >>
      [] OTHER    -> << >>

ChildPage(h, p) == IF p + 1 <= Len(ChildPages(h)) THEN ChildPages(h)[p + 1] ELSE <<>>

\* the listings considered: one page; a gap page; a hackathon on two pages
Listings ==
    { << <<"h1", "h2">> >>,
      << <<"h1">>, <<>>, <<"h2", "h3">> >>,
      << <<"h1", "h2">>, <<"h1", "h3">> >>,
      << <<"h2", "h1", "h3">> >> }

SetOf(s) == {s[i] : i \in 1..Len(s)}

VARIABLES
    listing,      \* the source's pages of challenges, page p at listing[p + 1]
    open,         \* challenges whose isClosed is false or absent
    malformed,    \* challenges whose entry lacks "organization"
    hackathons,   \* table hackathons: a set of rows
    projects,     \* table projects: a set of rows
    proc,         \* per run: the locals of load_all_data / load_hackathons
    obs,          \* per run: what the run did (history)
    interrupted,  \* parents whose run was aborted between their upsert and their projects'
    childFailed,  \* parents whose project fetch failed in some run
    lastUp,       \* per external_id upserted so far: the payload of the latest upsert
    runs,         \* runs started so far
    text,         \* the argument of clean_text
    cleaned       \* its result, or None before the call

vars == <<listing, open, malformed, hackathons, projects, proc, obs,
          interrupted, childFailed, lastUp, runs, text, cleaned>>

source == <<listing, open, malformed>>
textvars == <<text, cleaned>>

SrcPage(p) == IF p + 1 <= Len(listing) THEN listing[p + 1] ELSE <<>>

(***************************************************************************)
(* The store.                                                              *)
(***************************************************************************)
NextId(table) ==
    IF table = {} THEN 1
    ELSE 1 + (CHOOSE m \in {row.id : row \in table} : \A row \in table : row.id <= m)

\* the columns of a new row that a payload does not name (url, description: NULL)
BlankHackathon ==
    [id |-> 0, external_id |-> "", name |-> <<>>, slug |-> FALSE,
     processed |-> FALSE, detailed |-> FALSE]
BlankProject ==
    [id |-> 0, external_id |-> "", hackathon_id |-> 0, title |-> <<>>, processed |-> FALSE]

\* the columns of the payload overwrite the row's; its id and the others stay
Merge(row, rec) ==
    [f \in DOMAIN row |-> IF f \in DOMAIN rec THEN rec[f] ELSE row[f]]

NewRow(table, rec, blank) == [Merge(blank, rec) EXCEPT !.id = NextId(table)]

\* an insert that ignores the conflict target
Insert(table, rec, blank) == table \cup {NewRow(table, rec, blank)}

\* table.upsert(rec, on_conflict=["external_id"]).execute()
Upsert(table, rec, blank) ==
    IF \E row \in table : row.external_id = rec.external_id
    THEN {IF row.external_id = rec.external_id THEN Merge(row, rec) ELSE row : row \in table}
    ELSE table \cup {NewRow(table, rec, blank)}

\* table.upsert([rec, ...], on_conflict=["external_id"]).execute()
RECURSIVE UpsertAll(_, _, _)
UpsertAll(table, recs, blank) ==
    IF recs = <<>> THEN table
    ELSE UpsertAll(Upsert(table, Head(recs), blank), Tail(recs), blank)

\* table.update(rec).eq("id", id).execute()
Update(table, id, rec) ==
    {IF row.id = id THEN Merge(row, rec) ELSE row : row \in table}

\* result.data[0]["id"]: the id of the row the upsert wrote
RowId(table, eid) ==
    LET rows == {row \in table : row.external_id = eid}
    IN  (CHOOSE row \in rows : \A other \in rows : other.id <= row.id).id

RECURSIVE SortedIds(_)
SortedIds(S) ==
    IF S = {} THEN <<>>
    ELSE LET m == CHOOSE x \in S : \A y \in S : x <= y
         IN  <<m>> \o SortedIds(S \ {m})

(***************************************************************************)
(* The fetches. ok: the response has status 200 and parses.                *)
(***************************************************************************)
fetch_challenges_page(page, ok) == IF ok THEN SrcPage(page) ELSE <<>>

\* the request names page 0 only
fetch_projects_for_challenge(challenge_id, ok) ==
    IF ok THEN ChildPage(challenge_id, 0) ELSE <<>>

\* ok: the select did not raise
get_existing_hackathon_ids(ok) ==
    IF ok THEN {row.external_id : row \in hackathons} ELSE {}

\* a filter that lets every challenge through
EligibleAlways(ch) == TRUE

\* ch.get("isClosed", False)
Eligible(ch) == ch \notin open

\* an empty page that ends the loop (break)
AfterEmptyPageBreak(page) == PageRange

\* "if not challenges: continue": the loop goes on with the next page
AfterEmptyPage(page) == page + 1

(***************************************************************************)
(* A run: its locals (proc) and what it has done so far (obs).             *)
(***************************************************************************)
Idle ==
    [pc |-> "idle", page |-> 0, challenges |-> <<>>, idx |-> 0,
     stored_ids |-> {}, hackathon_id |-> 0, pending |-> <<>>]

ObsNone ==
    [outcome |-> "none", kind |-> "none", procAtStart |-> {}, stale |-> {},
     saved |-> {}, fetched |-> {}, created |-> {}, detailed |-> {},
     seen |-> {}, missed |-> {}, left |-> {}, clean |-> TRUE, prevDone |-> FALSE]

ProcessedIds == {row.external_id : row \in {x \in hackathons : x.processed}}

\* the rows of projects whose parent row is stored and not processed
StaleChildren ==
    {p.id : p \in {x \in projects :
        \E h \in hackathons : h.id = x.hackathon_id /\ ~h.processed}}

\* the locals once the loop reaches page p: the for loop ends after PageRange pages
AtPage(pr, p) ==
    IF p < PageRange
    THEN [pr EXCEPT !.pc = "page", !.page = p, !.challenges = <<>>, !.idx = 0,
                    !.hackathon_id = 0]
    ELSE Idle

\* the locals after the record at idx: the next record, or the next page
AfterRecord(pr) ==
    IF pr.idx < Len(pr.challenges)
    THEN [pr EXCEPT !.pc = "record", !.idx = pr.idx + 1, !.hackathon_id = 0]
    ELSE AtPage(pr, pr.page + 1)

Ended(pr, o) == [o EXCEPT !.outcome = IF pr.pc = "idle" THEN "done" ELSE "running"]

\* the challenges load_all_data has not reached: the rest of the page and the
\* later pages of the range
Remaining(pr) ==
    {pr.challenges[i] : i \in (pr.idx + 1)..Len(pr.challenges)}
    \cup UNION {SetOf(SrcPage(q)) : q \in (pr.page + 1)..(PageRange - 1)}

\* an uncaught exception ends the run
Crash(r, rest) ==
    /\ proc' = [proc EXCEPT ![r] = Idle]
    /\ obs' = [obs EXCEPT ![r] = [@ EXCEPT !.outcome = "crashed", !.left = rest]]

Init ==
    /\ listing \in Listings
    /\ open \in {{}, {"h2"}, {"h3"}}
    /\ malformed \in {{}, {"h2"}}
    /\ hackathons = {}
    /\ projects = {}
    /\ proc = [r \in Runs |-> Idle]
    /\ obs = [r \in Runs |-> ObsNone]
    /\ interrupted = {}
    /\ childFailed = {}
    /\ lastUp = <<>>
    /\ runs = 0
    /\ text = None
    /\ cleaned = None

(***************************************************************************)
(* load_all_data                                                           *)
(***************************************************************************)
BeginLoadAllData(r) ==
    /\ proc[r].pc = "idle"
    /\ runs < MaxRuns
    /\ \E ok \in BOOLEAN :
         /\ proc' = [proc EXCEPT ![r] =
                [AtPage(Idle, 0) EXCEPT !.stored_ids = get_existing_hackathon_ids(ok)]]
         /\ obs' = [obs EXCEPT ![r] =
                [ObsNone EXCEPT !.outcome = "running", !.kind = "crawl",
                                !.procAtStart = ProcessedIds,
                                !.stale = StaleChildren,
                                !.clean = ok,
                                !.prevDone = (obs[r].outcome = "done")]]
    /\ runs' = runs + 1
    /\ UNCHANGED <<source, hackathons, projects, interrupted, childFailed, lastUp, textvars>>

\* the pages of the range from p on that hold challenges at the source
PagesWithChallenges(p) == {q \in p..(PageRange - 1) : SrcPage(q) # <<>>}

\* the loop from page p on: the first page whose fetch returns challenges, or
\* PageRange when the loop ends; failed: the pages whose fetch fails
RECURSIVE NextPageWithChallenges(_, _)
NextPageWithChallenges(p, failed) ==
    IF p >= PageRange THEN PageRange
    ELSE IF fetch_challenges_page(p, p \notin failed) = <<>>
         THEN NextPageWithChallenges(AfterEmptyPage(p), failed)
         ELSE p

\* the iterations of "for page in range(20)" up to the next page that returns
\* challenges: the pages before it return nothing (empty, or failed) and are passed
FetchChallengesPage(r) ==
    /\ proc[r].pc = "page"
    /\ \E failed \in SUBSET PagesWithChallenges(proc[r].page) :
         LET pr == proc[r]
             page == NextPageWithChallenges(pr.page, failed)
             next == IF page >= PageRange THEN Idle
                     ELSE [pr EXCEPT !.pc = "record", !.page = page, !.idx = 1,
                                     !.challenges = fetch_challenges_page(page, TRUE)]
         IN  /\ \A q \in failed : q < page
             /\ proc' = [proc EXCEPT ![r] = next]
             /\ obs' = [obs EXCEPT ![r] =
                    Ended(next, [@ EXCEPT !.missed =
                        @ \cup UNION {SetOf(SrcPage(q)) : q \in failed}])]
    /\ UNCHANGED <<source, hackathons, projects, interrupted, childFailed, lastUp, runs, textvars>>

ProcessChallenge(r) ==
    /\ proc[r].pc = "record"
    /\ LET pr == proc[r]
           ch == pr.challenges[pr.idx]
           seen == [obs[r] EXCEPT !.seen = @ \cup {ch}]
       IN  IF ~Eligible(ch) \/ ch \in pr.stored_ids
           THEN \* continue
                /\ proc' = [proc EXCEPT ![r] = AfterRecord(pr)]
                /\ obs' = [obs EXCEPT ![r] = Ended(AfterRecord(pr), seen)]
                /\ UNCHANGED <<hackathons, lastUp>>
           ELSE IF ch \in malformed
           THEN \* ch["organization"] raises KeyError
                /\ Crash(r, Remaining(pr))
                /\ UNCHANGED <<hackathons, lastUp>>
           ELSE \E name \in RawNames(ch), accepted \in BOOLEAN :
                  LET hackathon_data ==
                          [external_id |-> ch, slug |-> ch \notin NoSlug,
                           name |-> clean_text(name), processed |-> FALSE]
                      table == Upsert(hackathons, hackathon_data, BlankHackathon)
                  IN  IF accepted
                      THEN /\ hackathons' = table
                           /\ lastUp' = (ch :> hackathon_data) @@ lastUp
                           /\ proc' = [proc EXCEPT ![r] =
                                  [pr EXCEPT !.pc = "saved",
                                             !.hackathon_id = RowId(table, ch)]]
                           /\ obs' = [obs EXCEPT ![r] =
                                  [seen EXCEPT !.saved = @ \cup {ch}]]
                      ELSE \* execute() raises
                           /\ Crash(r, Remaining(pr))
                           /\ UNCHANGED <<hackathons, lastUp>>
    /\ UNCHANGED <<source, projects, interrupted, childFailed, runs, textvars>>

SaveProjects(r) ==
    /\ proc[r].pc = "saved"
    /\ LET pr == proc[r]
           ch == pr.challenges[pr.idx]
       IN  \E ok \in BOOLEAN :
             LET fetched == fetch_projects_for_challenge(ch, ok)
                 did == [obs[r] EXCEPT !.fetched = @ \cup {ch},
                                       !.clean = @ /\ ok]
             IN  /\ childFailed' = IF ok THEN childFailed ELSE childFailed \cup {ch}
                 /\ IF fetched = <<>>
                    THEN /\ proc' = [proc EXCEPT ![r] = AfterRecord(pr)]
                         /\ obs' = [obs EXCEPT ![r] = Ended(AfterRecord(pr), did)]
                         /\ UNCHANGED <<projects, lastUp>>
                    ELSE \E accepted \in BOOLEAN :
                           LET project_records ==
                                   [i \in 1..Len(fetched) |->
                                       [external_id |-> fetched[i],
                                        hackathon_id |-> pr.hackathon_id,
                                        title |-> clean_text(Title(fetched[i])),
                                        processed |-> FALSE]]
                           IN  IF accepted
                               THEN /\ projects' =
                                        UpsertAll(projects, project_records, BlankProject)
                                    /\ lastUp' =
                                        [p \in SetOf(fetched) |->
                                            CHOOSE rec \in SetOf(project_records) :
                                                rec.external_id = p] @@ lastUp
                                    /\ proc' = [proc EXCEPT ![r] = AfterRecord(pr)]
                                    /\ obs' = [obs EXCEPT ![r] =
                                           Ended(AfterRecord(pr),
                                                 [did EXCEPT !.created = @ \cup {ch}])]
                               ELSE \* execute() raises
                                    /\ proc' = [proc EXCEPT ![r] = Idle]
                                    /\ obs' = [obs EXCEPT ![r] =
                                           [did EXCEPT !.outcome = "crashed",
                                                       !.left = Remaining(pr)]]
                                    /\ UNCHANGED <<projects, lastUp>>
    /\ UNCHANGED <<source, hackathons, interrupted, runs, textvars>>

(***************************************************************************)
(* load_hackathons                                                         *)
(***************************************************************************)
\* select("id, slug, organization_slug").eq("processed", False), in id order;
\* external_id rides along for the history only
PendingHackathons ==
    LET rows == {row \in hackathons : ~row.processed}
        ids == SortedIds({row.id : row \in rows})
    IN  [i \in 1..Len(ids) |->
            LET row == CHOOSE x \in rows : x.id = ids[i]
            IN  [id |-> row.id, slug |-> row.slug, external_id |-> row.external_id]]

\* the locals after the hackathon at the head of pending
AfterHackathon(pr) ==
    IF Len(pr.pending) > 1 THEN [pr EXCEPT !.pending = Tail(pr.pending)] ELSE Idle

BeginLoadHackathons(r) ==
    /\ proc[r].pc = "idle"
    /\ runs < MaxRuns
    /\ LET pending == PendingHackathons
           next == IF pending = <<>> THEN Idle
                   ELSE [Idle EXCEPT !.pc = "detail", !.pending = pending]
       IN  /\ proc' = [proc EXCEPT ![r] = next]
           /\ obs' = [obs EXCEPT ![r] =
                  Ended(next, [ObsNone EXCEPT !.kind = "detail",
                                              !.procAtStart = ProcessedIds,
                                              !.prevDone = (obs[r].outcome = "done")])]
    /\ runs' = runs + 1
    /\ UNCHANGED <<source, hackathons, projects, interrupted, childFailed, lastUp, textvars>>

ProcessHackathon(r) ==
    /\ proc[r].pc = "detail"
    /\ LET pr == proc[r]
           h == Head(pr.pending)
           rest == {pr.pending[i].external_id : i \in 2..Len(pr.pending)}
       IN  IF ~h.slug
           THEN \* "Missing slug": continue
                /\ proc' = [proc EXCEPT ![r] = AfterHackathon(pr)]
                /\ obs' = [obs EXCEPT ![r] = Ended(AfterHackathon(pr), @)]
                /\ UNCHANGED hackathons
           ELSE \E loaded \in BOOLEAN, accepted \in BOOLEAN :
                  IF ~loaded
                  THEN \* driver.get raises
                       /\ Crash(r, rest)
                       /\ UNCHANGED hackathons
                  ELSE /\ hackathons' =
                            IF accepted
                            THEN Update(hackathons, h.id,
                                        [detailed |-> TRUE, processed |-> TRUE])
                            ELSE hackathons   \* the update raises: caught
                       /\ proc' = [proc EXCEPT ![r] = AfterHackathon(pr)]
                       /\ obs' = [obs EXCEPT ![r] =
                              Ended(AfterHackathon(pr),
                                    [@ EXCEPT !.detailed = @ \cup {h.external_id}])]
    /\ UNCHANGED <<source, projects, interrupted, childFailed, lastUp, runs, textvars>>

(***************************************************************************)
(* The process is stopped between two steps of a run.                      *)
(***************************************************************************)
Abort(r) ==
    /\ proc[r].pc # "idle"
    /\ proc' = [proc EXCEPT ![r] = Idle]
    /\ obs' = [obs EXCEPT ![r] = [@ EXCEPT !.outcome = "aborted"]]
    /\ interrupted' =
          IF proc[r].pc = "saved"
          THEN interrupted \cup {proc[r].challenges[proc[r].idx]}
          ELSE interrupted
    /\ UNCHANGED <<source, hackathons, projects, childFailed, lastUp, runs, textvars>>

Step(r) ==
    \/ BeginLoadAllData(r)
    \/ FetchChallengesPage(r)
    \/ ProcessChallenge(r)
    \/ SaveProjects(r)
    \/ BeginLoadHackathons(r)
    \/ ProcessHackathon(r)
    \/ Abort(r)

\* one run at a time
Next == Step(1)

Spec == Init /\ [][Next]_vars

\* two runs on the same store, their steps interleaved, over one listing
ConcInit ==
    /\ listing = << <<"h1", "h2">>, <<"h1">> >>
    /\ open = {}
    /\ malformed = {}
    /\ hackathons = {}
    /\ projects = {}
    /\ proc = [r \in Runs |-> Idle]
    /\ obs = [r \in Runs |-> ObsNone]
    /\ interrupted = {}
    /\ childFailed = {}
    /\ lastUp = <<>>
    /\ runs = 0
    /\ text = None
    /\ cleaned = None

ConcNext ==
    \E r \in Runs :
        \/ BeginLoadAllData(r) /\ runs < MaxConcRuns
        \/ FetchChallengesPage(r)
        \/ ProcessChallenge(r)
        \/ SaveProjects(r)
        \/ BeginLoadHackathons(r) /\ runs < MaxConcRuns
        \/ ProcessHackathon(r)

ConcSpec == ConcInit /\ [][ConcNext]_vars

(***************************************************************************)
(* clean_text on its own                                                   *)
(***************************************************************************)
TextInit ==
    /\ listing = << <<"h1", "h2">> >>
    /\ open = {}
    /\ malformed = {}
    /\ hackathons = {}
    /\ projects = {}
    /\ proc = [r \in Runs |-> Idle]
    /\ obs = [r \in Runs |-> ObsNone]
    /\ interrupted = {}
    /\ childFailed = {}
    /\ lastUp = <<>>
    /\ runs = 0
    /\ text \in Texts
    /\ cleaned = None

\* cleaned = clean_text(text)
Clean ==
    /\ cleaned = None
    /\ cleaned' = clean_text(text)
    /\ UNCHANGED <<source, hackathons, projects, proc, obs, interrupted, childFailed,
                   lastUp, runs, text>>

\* the result is given to clean_text again
CleanAgain ==
    /\ cleaned # None
    /\ text # cleaned
    /\ text' = cleaned
    /\ cleaned' = clean_text(cleaned)
    /\ UNCHANGED <<source, hackathons, projects, proc, obs, interrupted, childFailed,
                   lastUp, runs>>

TextNext == Clean \/ CleanAgain

TextSpec == TextInit /\ [][TextNext]_vars

(***************************************************************************)
(* Properties.                                                             *)
(***************************************************************************)
Listed == UNION {SetOf(SrcPage(q)) : q \in 0..(PageRange - 1)}

Stored(h) == \E row \in hackathons : row.external_id = h

\* the external_id of the hackathon a project row belongs to
ParentOf(p) == {row.external_id : row \in {x \in hackathons : x.id = p.hackathon_id}}

\* the projects on the first page of h's project listing are stored under h
FirstChildrenStored(h) ==
    \A c \in SetOf(ChildPage(h, 0)) :
        \E p \in projects : p.external_id = c /\ h \in ParentOf(p)

CrawlDone(r) == obs[r].kind = "crawl" /\ obs[r].outcome = "done"

\* C1: of two consecutive complete runs, the second one issues no project fetch,
\* no overview fetch and no parent or child upsert for a parent that was processed
\* when the first one ended.
C1_SkipProcessed ==
    \A r \in Runs :
        (obs[r].outcome = "done" /\ obs[r].prevDone) =>
            \A h \in obs[r].procAtStart :
                h \notin (obs[r].saved \cup obs[r].fetched \cup obs[r].created
                          \cup obs[r].detailed)

\* C2: once a crawl run has created project rows for a parent that was stored and
\* not processed when the run began, none of the project rows that parent had then
\* is left (they were deleted first), and no two project rows share an external_id.
C2_Reconciled ==
    /\ \A r \in Runs : \A p \in projects :
          p.id \in obs[r].stale => ParentOf(p) \cap obs[r].created = {}
    /\ \A p1, p2 \in projects : p1.external_id = p2.external_id => p1 = p2

\* C3: a processed parent has all its stored children processed.
C3_ParentAfterChildren ==
    \A h \in hackathons :
        h.processed => \A p \in projects : p.hackathon_id = h.id => p.processed

\* each table holds one row per external_id
UniqueKeys ==
    /\ \A r1, r2 \in hackathons : r1.external_id = r2.external_id => r1 = r2
    /\ \A p1, p2 \in projects : p1.external_id = p2.external_id => p1 = p2

\* the columns that only upserts write are those of the latest upsert
LastWriteWins ==
    /\ \A row \in hackathons :
          /\ row.external_id \in DOMAIN lastUp
          /\ row.name = lastUp[row.external_id].name
          /\ row.slug = lastUp[row.external_id].slug
    /\ \A p \in projects :
          /\ p.external_id \in DOMAIN lastUp
          /\ p.title = lastUp[p.external_id].title
          /\ p.hackathon_id = lastUp[p.external_id].hackathon_id

\* a stored row keeps its external_id
KeysKept ==
    /\ \A row \in hackathons :
          \E new \in hackathons' : new.id = row.id /\ new.external_id = row.external_id
    /\ \A p \in projects :
          \E new \in projects' : new.id = p.id /\ new.external_id = p.external_id

\* C4: whatever upserts two interleaved runs issue, each table holds at most one
\* row per external_id, the row carries the values of the latest upsert for its
\* external_id, and the external_id of a stored row never changes.
C4_UpsertByKey == [](UniqueKeys /\ LastWriteWins) /\ [][KeysKept]_vars

C4_Witness ==
    \E h \in obs[1].saved \cap obs[2].saved :
        /\ obs[1].outcome = "running"
        /\ obs[2].outcome = "running"
        /\ lastUp[h].name = <<"b">>
        /\ {row.name : row \in {x \in hackathons : x.external_id = h}} = {<<"b">>}

\* C5: a challenge that is not closed is never stored, its projects are never
\* fetched, and no project row belongs to it.
C5_OnlyEligible ==
    /\ \A row \in hackathons : row.external_id \notin open
    /\ \A r \in Runs : (obs[r].saved \cup obs[r].fetched) \cap open = {}
    /\ \A p \in projects : ParentOf(p) \cap open = {}
    /\ \A p \in projects : \A c \in open : p.external_id \notin SetOf(ChildPage(c, 0))

C5_Witness ==
    /\ listing = << <<"h1", "h2">> >>
    /\ open = {"h2"}
    /\ CrawlDone(1)
    /\ "h2" \in obs[1].seen
    /\ {row.external_id : row \in hackathons} = {"h1"}
    /\ projects # {}

\* C6: when a crawl run was aborted after a parent's upsert and before its
\* projects', a later crawl run that completes with every fetch and the lookup
\* succeeding leaves the projects of that parent stored (those of the first page of
\* its project listing already).
C6_Recovered ==
    \A r \in Runs :
        (CrawlDone(r) /\ obs[r].clean /\ obs[r].missed = {}) =>
            \A h \in interrupted \cap Listed : FirstChildrenStored(h)

\* C7: a failure on one record does not end the run: when a run ends on an
\* exception, no other record was left unprocessed.
C7_Isolated == \A r \in Runs : obs[r].outcome = "crashed" => obs[r].left = {}

\* C8: a parent whose project fetch failed is not left as if it had no projects:
\* it is attempted again, so a later crawl run that completes with every fetch and
\* the lookup succeeding leaves its projects stored.
C8_FailureNotAbsence ==
    \A r \in Runs :
        (CrawlDone(r) /\ obs[r].clean /\ obs[r].missed = {}) =>
            \A h \in childFailed : Stored(h) => FirstChildrenStored(h)

\* C9: a page without challenges does not end the traversal: when a crawl run
\* completes, every challenge on a page that comes after an empty page (and whose
\* own fetch did not fail) was reached by the loop, and is stored if it is closed.
C9_EmptyPagePassed ==
    \A r \in Runs :
        CrawlDone(r) =>
            \A p \in 0..(PageRange - 1) :
                (\E q \in 0..(p - 1) : SrcPage(q) = <<>>) =>
                    \A h \in SetOf(SrcPage(p)) \ obs[r].missed :
                        h \in obs[r].seen /\ (h \notin open => Stored(h))

C9_Witness ==
    /\ CrawlDone(1)
    /\ SrcPage(1) = <<>>
    /\ SrcPage(2) # <<>>
    /\ SetOf(SrcPage(2)) \subseteq obs[1].saved

HasNoSymbol(s) == \A i \in 1..Len(s) : ~IsSymbol(s[i])
HasNoSpaceRun(s) == \A i \in 1..(Len(s) - 1) : ~(IsSpace(s[i]) /\ IsSpace(s[i + 1]))
IsStripped(s) == s = <<>> \/ (~IsSpace(s[1]) /\ ~IsSpace(s[Len(s)]))

\* C10: the result of clean_text is a fixed point of clean_text, holds no symbol,
\* no two adjacent whitespace characters and no whitespace at either end; empty and
\* null text give the empty string.
C10_CleanText ==
    cleaned # None =>
        /\ clean_text(cleaned) = cleaned
        /\ HasNoSymbol(cleaned)
        /\ HasNoSpaceRun(cleaned)
        /\ IsStripped(cleaned)
        /\ (text \in {None, <<>>} => cleaned = <<>>)

C10_Witness ==
    /\ cleaned = <<"a", " ", "a">>
    /\ text = <<"a", "\n", "$", "a">>

\* C11: the state of a stored record only moves forward: no step writes
\* processed = False to a row whose processed is True.
C11_NoBackTransition ==
    [][/\ \A row \in hackathons : row.processed =>
              \A new \in hackathons' : new.id = row.id => new.processed
       /\ \A p \in projects : p.processed =>
              \A new \in projects' : new.id = p.id => new.processed]_vars

\* the pages of h's project listing that come before its first empty page
ChildPagesBeforeExhaustion(h) ==
    {p \in 0..Len(ChildPages(h)) : \A q \in 0..p : ChildPage(h, q) # <<>>}

\* the pages of the challenge listing that come before its first empty page
PagesBeforeExhaustion ==
    {p \in 0..Len(listing) : \A q \in 0..p : SrcPage(q) # <<>>}

\* C12: both listings are read page by page from page 0 until the source signals
\* exhaustion: when a crawl run completes with every fetch and the lookup
\* succeeding, every challenge on a page before the first empty page was reached,
\* and every project on a page before the first empty page of the project listing
\* of a challenge the run saved is stored under it.
C12_PagedToExhaustion ==
    \A r \in Runs :
        (CrawlDone(r) /\ obs[r].clean /\ obs[r].missed = {}) =>
            /\ \A p \in PagesBeforeExhaustion : SetOf(SrcPage(p)) \subseteq obs[r].seen
            /\ \A h \in obs[r].saved :
                  \A p \in ChildPagesBeforeExhaustion(h) :
                      \A c \in SetOf(ChildPage(h, p)) :
                          \E row \in projects :
                              row.external_id = c /\ h \in ParentOf(row)

====
